---------------------------- MODULE Spec2Model ----------------------------
(***************************************************************************)
(* Model of find_empty_pages.py: the empty-region scanner over the body    *)
(* elements of word/document.xml, the index-based deletion, and the        *)
(* interactive session (process_docx / main) with its backup and repack.   *)
(***************************************************************************)
EXTENDS Integers, Sequences, FiniteSets, TLC

VARIABLES
    docx,               \* content of the file at docx_path
    backup,             \* content of the file at docx_path.with_suffix('.backup.docx')
    document_xml,       \* extract_dir/word/document.xml in the temporary directory
    min_empty,          \* min_empty / min_empty_paragraphs
    body,               \* children of the w:body element of the in-memory tree
    paragraphs,         \* paragraphs = list(body), taken by the scan
    empty_regions,      \* list returned by find_empty_page_regions
    regions_to_delete,  \* list handed to delete_empty_regions
    prev_regions,       \* empty_regions of the scan before the last deletion
    swallowed,          \* ValueErrors caught by the last delete_empty_regions call
    raised,             \* exception that left the current call, "" when none
    pc,                 \* position of the session / of the function pipeline
    outcome,            \* how the last process_docx call ended
    docx_path,          \* the path main() handed to process_docx
    choice,             \* answer to "Your choice (a/s/n)", stripped and lowered
    confirm,            \* answer to "Type 'yes' to confirm", stripped and lowered
    responses,          \* answers of the per-region prompts so far, stripped and lowered
    sel,                \* loop position of the per-region prompt (0-based)
    runs,               \* number of main() invocations started so far
    docx_at_start,      \* content of docx_path when the current run started
    backup_at_start,    \* content of the backup path when the current run started
    copied,             \* shutil.copy returned in the current run
    written             \* the current run opened docx_path for writing

vars == <<docx, backup, document_xml, min_empty, body, paragraphs, empty_regions,
          regions_to_delete, prev_regions, swallowed, raised, pc, outcome,
          docx_path, choice, confirm, responses, sel, runs,
          docx_at_start, backup_at_start, copied, written>>

---------------------------------------------------------------------------
(* Bounds of the model *)

MaxShortLen == 3    \* longest body drawn from the full element universe
MaxLen == 5         \* longest body drawn from the core element universe
MaxThreshold == 2   \* largest min_empty_paragraphs handed to the scanner
MaxBelow == 1       \* how far below zero min_empty_paragraphs is drawn
MaxDocLen == 3      \* longest body of the document a session starts from
MaxRuns == 2        \* number of main() invocations on the same path

---------------------------------------------------------------------------
(* Generic helpers *)

Range(s) == {s[k] : k \in DOMAIN s}

SetMax(S) == CHOOSE x \in S : \A y \in S : y <= x

RECURSIVE SeqsUpTo(_, _)
SeqsUpTo(S, n) ==
    IF n = 0 THEN {<<>>}
    ELSE LET shorter == SeqsUpTo(S, n - 1)
         IN shorter \cup {Append(s, x) : s \in {q \in shorter : Len(q) = n - 1}, x \in S}

\* the subsequence of s at the positions in K, in order
RECURSIVE Pick(_, _)
Pick(s, K) ==
    IF s = <<>> THEN <<>>
    ELSE LET rest == Pick(Tail(s), {k - 1 : k \in K \ {1}})
         IN IF 1 \in K THEN <<Head(s)>> \o rest ELSE rest

SubLists(s) == {Pick(s, K) : K \in SUBSET DOMAIN s}

---------------------------------------------------------------------------
(* Body elements.  An element carries its tag, the text of its w:t         *)
(* descendants, the w:type of its w:br descendants, and its w:sectPr       *)
(* descendants, each given by the w:val of its w:type children.            *)

Elem(local, t, br, sectPr) == [tag |-> local, t |-> t, br |-> br, sectPr |-> sectPr]

PText        == Elem("p", << <<"a">> >>, <<>>, <<>>)
PEmpty       == Elem("p", <<>>, <<>>, <<>>)
PBlank       == Elem("p", << <<" ">>, <<>> >>, <<"textWrapping">>, <<>>)
PPageBr      == Elem("p", <<>>, <<"page">>, <<>>)
PSectNext    == Elem("p", <<>>, <<>>, << <<"nextPage">> >>)
PSectOdd     == Elem("p", <<>>, <<>>, << <<"oddPage">> >>)
PSectEven    == Elem("p", <<>>, <<>>, << <<"evenPage">> >>)
PSectCont    == Elem("p", <<>>, <<>>, << <<"continuous">> >>)
PSectUntyped == Elem("p", <<>>, <<>>, << <<>> >>)
Tbl          == Elem("tbl", << <<"a">> >>, <<>>, <<>>)

AllKinds == {PText, PEmpty, PBlank, PPageBr, PSectNext, PSectOdd, PSectEven,
             PSectCont, PSectUntyped, Tbl}

CoreKinds == {PText, PEmpty, PPageBr, PSectNext}

\* content of a document.xml file
Xml(kind, elems) == [kind |-> kind, elems |-> elems]

NoXml == Xml("none", <<>>)

---------------------------------------------------------------------------
(* Emptiness classifier *)

IsSpace(c) == c = " "

RECURSIVE LStrip(_)
LStrip(s) == IF s # <<>> /\ IsSpace(Head(s)) THEN LStrip(Tail(s)) ELSE s

RECURSIVE RStrip(_)
RStrip(s) ==
    IF s # <<>> /\ IsSpace(s[Len(s)]) THEN RStrip(SubSeq(s, 1, Len(s) - 1)) ELSE s

\* str.strip()
Strip(s) == RStrip(LStrip(s))

RECURSIVE ConcatText(_)
ConcatText(ts) ==
    IF ts = <<>> THEN <<>>
    ELSE IF Head(ts) # <<>> THEN Head(ts) \o ConcatText(Tail(ts))
         ELSE ConcatText(Tail(ts))

get_paragraph_text(para) == Strip(ConcatText(para.t))

is_empty_paragraph(para) == Len(get_paragraph_text(para)) = 0

has_page_break(para) == \E k \in DOMAIN para.br : para.br[k] = "page"

PageForcingTypes == {"nextPage", "oddPage", "evenPage"}

\* variant: any section-properties marker counts as page-forcing
has_section_break_any_type(para) == para.sectPr # <<>>

has_section_break(para) ==
    IF para.sectPr # <<>>
    THEN LET sect == Head(para.sectPr)
         IN IF sect # <<>> THEN Head(sect) \in PageForcingTypes ELSE FALSE
    ELSE FALSE

tag_local(para) == para.tag

---------------------------------------------------------------------------
(* Region scanner *)

None == -1      \* current_empty_start = None

\* ET.parse + list(body): the element objects, identified by their position
\* at parse time
Parse(elems) == [k \in DOMAIN elems |-> [id |-> k - 1, el |-> elems[k]]]

Region(st) ==
    [start_index |-> st.start,
     end_index   |-> st.indices[Len(st.indices)],
     count       |-> st.count,
     indices     |-> st.indices]

\* "if current_empty_count >= min_empty_paragraphs: empty_regions.append(...)";
\* current_empty_indices[-1] raises IndexError on an empty list
EmitRun(st, min_empty_paragraphs) ==
    IF st.count >= min_empty_paragraphs
    THEN IF st.indices = <<>>
         THEN [st EXCEPT !.raised = "IndexError"]
         ELSE [st EXCEPT !.regions = Append(@, Region(st))]
    ELSE st

ResetRun(st) == [st EXCEPT !.start = None, !.count = 0, !.indices = <<>>]

ExtendRun(st, i) ==
    [st EXCEPT !.start = IF st.start = None THEN i ELSE st.start,
               !.count = st.count + 1,
               !.indices = Append(st.indices, i)]

\* body of the for loop, for element i (0-based)
ScanStep(st, i, para, min_empty_paragraphs) ==
    IF tag_local(para) = "p"
    THEN IF is_empty_paragraph(para) /\ ~has_section_break(para)
         THEN ExtendRun(st, i)
         ELSE LET e == EmitRun(st, min_empty_paragraphs)
              IN IF e.raised # "" THEN e ELSE ResetRun(e)
    ELSE LET e == EmitRun(st, min_empty_paragraphs)
         IN IF e.raised # "" THEN e ELSE ResetRun(e)

RECURSIVE ScanLoop(_, _, _, _)
ScanLoop(ps, i, st, min_empty_paragraphs) ==
    IF st.raised # "" THEN st
    ELSE IF i >= Len(ps) THEN EmitRun(st, min_empty_paragraphs)
    ELSE ScanLoop(ps, i + 1, ScanStep(st, i, ps[i + 1].el, min_empty_paragraphs),
                  min_empty_paragraphs)

ScanStart == [start |-> None, count |-> 0, indices |-> <<>>, regions |-> <<>>,
              raised |-> ""]

\* The value of find_empty_page_regions: the exception it raises ("" when it
\* returns), the length of the returned tuple, and the tuple's members.
find_empty_page_regions(xml, min_empty_paragraphs) ==
    IF xml.kind = "malformed"
    THEN [raised |-> "ParseError", len |-> 0, empty_regions |-> <<>>,
          body |-> <<>>, paragraphs |-> <<>>]
    ELSE IF xml.kind = "nobody"
    THEN [raised |-> "", len |-> 4, empty_regions |-> <<>>,
          body |-> <<>>, paragraphs |-> <<>>]
    ELSE LET ps == Parse(xml.elems)
             st == ScanLoop(ps, 0, ScanStart, min_empty_paragraphs)
         IN [raised |-> st.raised, len |-> 5,
             empty_regions |-> IF st.raised = "" THEN st.regions ELSE <<>>,
             body |-> ps, paragraphs |-> ps]

---------------------------------------------------------------------------
(* Deletion and rewrite *)

\* variant: removes the first child with equal content instead of the object
remove_equal_content(children, elem) ==
    IF \E k \in DOMAIN children : children[k].el = elem.el
    THEN LET k == CHOOSE j \in DOMAIN children :
                     children[j].el = elem.el /\ \A h \in 1..(j - 1) : children[h].el # elem.el
         IN [ValueError |-> FALSE,
             children |-> SubSeq(children, 1, k - 1) \o SubSeq(children, k + 1, Len(children))]
    ELSE [ValueError |-> TRUE, children |-> children]

\* Element.remove: drops the child that is this object; ValueError when absent
remove(children, elem) ==
    IF \E k \in DOMAIN children : children[k] = elem
    THEN LET k == CHOOSE j \in DOMAIN children :
                     children[j] = elem /\ \A h \in 1..(j - 1) : children[h] # elem
         IN [ValueError |-> FALSE,
             children |-> SubSeq(children, 1, k - 1) \o SubSeq(children, k + 1, Len(children))]
    ELSE [ValueError |-> TRUE, children |-> children]

\* variant: takes start_index..end_index-1 of each region
indices_to_delete_exclusive_end(regions) ==
    UNION {regions[k].start_index..(regions[k].end_index - 1) : k \in DOMAIN regions}

indices_to_delete(regions) == UNION {Range(regions[k].indices) : k \in DOMAIN regions}

\* "for i in sorted(indices_to_delete, reverse=True)": try body.remove(paragraphs[i])
RECURSIVE RemoveLoop(_, _, _)
RemoveLoop(acc, ps, idx) ==
    IF idx = {} THEN acc
    ELSE LET i == SetMax(idx)
             r == remove(acc.children, ps[i + 1])
         IN RemoveLoop([children |-> r.children,
                        swallowed |-> acc.swallowed + (IF r.ValueError THEN 1 ELSE 0)],
                       ps, idx \ {i})

\* the children of body after delete_empty_regions, and the number of
\* ValueErrors its except clause swallowed
delete_empty_regions(regions, children, ps) ==
    RemoveLoop([children |-> children, swallowed |-> 0], ps, indices_to_delete(regions))

\* tree.write: the elements of the rewritten document.xml
Serialize(children) == [k \in DOMAIN children |-> children[k].el]

---------------------------------------------------------------------------
(* The scanner and the deletion as functions: every bounded body and       *)
(* threshold is scanned, any sublist of the found regions is deleted, and  *)
(* the rewritten document is parsed and scanned again.                     *)

NoFile == [kind |-> "absent", xml |-> NoXml]

Unset == <<"unset">>     \* a local that has not been assigned

MinEmptyValues == (0 - MaxBelow)..MaxThreshold

ScanBodies == SeqsUpTo(AllKinds, MaxShortLen) \cup SeqsUpTo(CoreKinds, MaxLen)

SessionVarsIdle ==
    /\ docx = NoFile /\ backup = NoFile
    /\ outcome = "" /\ sel = 0 /\ runs = 0
    /\ docx_path = "" /\ choice = Unset /\ confirm = Unset /\ responses = <<>>
    /\ docx_at_start = NoFile /\ backup_at_start = NoFile
    /\ copied = FALSE /\ written = FALSE

InitScan ==
    /\ document_xml \in {Xml("body", e) : e \in ScanBodies} \cup {Xml("nobody", <<>>)}
    /\ min_empty \in MinEmptyValues
    /\ body = <<>> /\ paragraphs = <<>>
    /\ empty_regions = <<>> /\ regions_to_delete = <<>> /\ prev_regions = <<>>
    /\ swallowed = 0 /\ raised = ""
    /\ pc = "parsed"
    /\ SessionVarsIdle

SessionVarsUnchanged ==
    UNCHANGED <<docx, backup, outcome, docx_path, choice, confirm, responses, sel, runs,
                docx_at_start, backup_at_start, copied, written>>

\* find_empty_page_regions(document_xml, min_empty)
Scan ==
    /\ pc = "parsed"
    /\ LET result == find_empty_page_regions(document_xml, min_empty)
       IN /\ raised' = result.raised
          /\ empty_regions' = result.empty_regions
          /\ body' = result.body
          /\ paragraphs' = result.paragraphs
          /\ pc' = IF result.raised # "" THEN "raised" ELSE "scanned"
    /\ UNCHANGED <<document_xml, min_empty, regions_to_delete, prev_regions, swallowed>>
    /\ SessionVarsUnchanged

\* delete_empty_regions(regions_to_delete, body, paragraphs, tree, document_xml)
Delete ==
    /\ pc = "scanned"
    /\ \E chosen \in SubLists(empty_regions) :
          LET d == delete_empty_regions(chosen, body, paragraphs)
          IN /\ regions_to_delete' = chosen
             /\ body' = d.children
             /\ swallowed' = d.swallowed
             /\ document_xml' = Xml(document_xml.kind, Serialize(d.children))
    /\ prev_regions' = empty_regions
    /\ pc' = "deleted"
    /\ UNCHANGED <<min_empty, paragraphs, empty_regions, raised>>
    /\ SessionVarsUnchanged

\* a second delete_empty_regions call with the same tree and the same
\* paragraphs list: elements removed by the first call are absent from body
DeleteAgain ==
    /\ pc = "deleted"
    /\ \E chosen \in SubLists(empty_regions) :
          LET d == delete_empty_regions(chosen, body, paragraphs)
          IN /\ regions_to_delete' = chosen
             /\ body' = d.children
             /\ swallowed' = d.swallowed
             /\ document_xml' = Xml(document_xml.kind, Serialize(d.children))
    /\ pc' = "deleted again"
    /\ UNCHANGED <<min_empty, paragraphs, empty_regions, prev_regions, raised>>
    /\ SessionVarsUnchanged

\* find_empty_page_regions on the rewritten document.xml, same threshold
Rescan ==
    /\ pc = "deleted"
    /\ LET result == find_empty_page_regions(document_xml, min_empty)
       IN /\ raised' = result.raised
          /\ empty_regions' = result.empty_regions
          /\ body' = result.body
          /\ paragraphs' = result.paragraphs
          /\ pc' = IF result.raised # "" THEN "raised again" ELSE "rescanned"
    /\ UNCHANGED <<document_xml, min_empty, regions_to_delete, prev_regions, swallowed>>
    /\ SessionVarsUnchanged

NextScan == Scan \/ Delete \/ DeleteAgain \/ Rescan

SpecScan == InitScan /\ [][NextScan]_vars

---------------------------------------------------------------------------
(* Properties of the scanner and the deletion *)

Scanned == pc \in {"scanned", "rescanned"}

\* the region record of the run of positions s..e (0-based)
RegionOf(s, e) ==
    [start_index |-> s, end_index |-> e, count |-> e - s + 1,
     indices |-> [k \in 1..(e - s + 1) |-> s + k - 1]]

\* an empty paragraph that carries no page-forcing break: neither an explicit
\* page break nor a nextPage/oddPage/evenPage section break
EmptyNonBreaking(o) ==
    /\ tag_local(o.el) = "p"
    /\ is_empty_paragraph(o.el)
    /\ ~has_page_break(o.el)
    /\ ~has_section_break(o.el)

\* the maximal runs of consecutive empty, non-breaking paragraphs of ps
MaximalRuns(ps) ==
    LET n == Len(ps)
    IN {r \in (0..(n - 1)) \X (0..(n - 1)) :
          /\ r[1] <= r[2]
          /\ \A k \in r[1]..r[2] : EmptyNonBreaking(ps[k + 1])
          /\ r[1] = 0 \/ ~EmptyNonBreaking(ps[r[1]])
          /\ r[2] = n - 1 \/ ~EmptyNonBreaking(ps[r[2] + 2])}

InDocumentOrder(regions) ==
    \A a, b \in DOMAIN regions : a < b => regions[a].end_index < regions[b].start_index

\* C1: for every body and every minimum t >= 1 the scan returns, in document
\* order, exactly one region for each maximal run of consecutive empty,
\* non-breaking paragraphs of length >= t (interior or trailing) and nothing
\* else, each with the run's positions, first/last position and length.
C1_ThresholdPolicy ==
    (Scanned /\ min_empty >= 1) =>
        /\ InDocumentOrder(empty_regions)
        /\ Len(empty_regions) = Cardinality(Range(empty_regions))
        /\ Range(empty_regions) =
              {RegionOf(r[1], r[2]) :
                  r \in {q \in MaximalRuns(paragraphs) : q[2] - q[1] + 1 >= min_empty}}

\* C5: every member of every emitted region is an empty paragraph that
\* carries neither an explicit page break nor a page-forcing section break.
C5_MembersCarryNoPageForcingBreak ==
    Scanned =>
        \A k \in DOMAIN empty_regions :
            \A j \in DOMAIN empty_regions[k].indices :
                EmptyNonBreaking(paragraphs[empty_regions[k].indices[j] + 1])

\* C7: when every paragraph of the body is non-empty, the scan completes and
\* returns no region, for every integer threshold including 0 and below.
C7_NonEmptyParagraphsGiveNoRegion ==
    (/\ pc \in {"scanned", "raised"}
     /\ document_xml.kind = "body"
     /\ \A k \in DOMAIN document_xml.elems :
           tag_local(document_xml.elems[k]) = "p"
               => ~is_empty_paragraph(document_xml.elems[k]))
    => (raised = "" /\ empty_regions = <<>>)

\* the positions named by a list of regions
ChosenIndices(regions) ==
    {i \in 0..(Len(paragraphs) - 1) :
        \E k \in DOMAIN regions : \E j \in DOMAIN regions[k].indices :
            regions[k].indices[j] = i}

\* the elements of children that are not at a chosen position of paragraphs
Survivors(children, regions) ==
    LET keep(o) == \A i \in ChosenIndices(regions) : paragraphs[i + 1] # o
    IN SelectSeq(children, keep)

\* C4: a delete_empty_regions call with any sublist of the detected regions
\* leaves in body exactly the elements whose position is not in the union of
\* the chosen regions' indices, in their original relative order; an element
\* that is already absent is skipped without an error.
C4_DeleteRemovesExactlyChosen ==
    [][(pc' \in {"deleted", "deleted again"} /\ pc' # pc)
          => /\ body' = Survivors(body, regions_to_delete')
             /\ raised' = ""
             /\ paragraphs' = paragraphs]_vars

\* C4 witness: a second call removed some elements and found others, removed
\* by the first call, already absent
C4_Witness ==
    /\ pc = "deleted again"
    /\ swallowed > 0
    /\ swallowed < Cardinality(ChosenIndices(regions_to_delete))
    /\ body # <<>>
    /\ Len(regions_to_delete) < Len(empty_regions)

\* an empty paragraph with neither a break nor a section-properties marker
PlainEmpty(o) ==
    /\ tag_local(o.el) = "p"
    /\ is_empty_paragraph(o.el)
    /\ ~has_page_break(o.el)
    /\ o.el.sectPr = <<>>

\* an empty paragraph carrying a section break and no explicit page break
CarriesSectionBreak(o) ==
    /\ tag_local(o.el) = "p"
    /\ is_empty_paragraph(o.el)
    /\ ~has_page_break(o.el)
    /\ o.el.sectPr # <<>>

\* the break-type of the section break, "" when it has none
BreakType(o) == IF Head(o.el.sectPr) = <<>> THEN "" ELSE Head(Head(o.el.sectPr))

\* a non-paragraph or a non-empty paragraph
EndsRun(o) == tag_local(o.el) # "p" \/ ~is_empty_paragraph(o.el)

\* positions s..e hold plain empty paragraphs except for position i, and are
\* bounded on each side by the document edge or an element that ends a run
OtherwiseEmptyRun(ps, s, i, e) ==
    /\ s <= i /\ i <= e
    /\ \A k \in (s..e) \ {i} : PlainEmpty(ps[k + 1])
    /\ s = 0 \/ EndsRun(ps[s])
    /\ e = Len(ps) - 1 \/ EndsRun(ps[e + 2])

RegionsTouching(s, e) ==
    {r \in Range(empty_regions) : \E j \in DOMAIN r.indices : r.indices[j] \in s..e}

\* C6: a section break on an empty paragraph inside an otherwise-empty run
\* splits the run exactly when its break-type is nextPage, oddPage or
\* evenPage: then the two sides are separate runs, each compared with the
\* threshold and neither holding the break paragraph; otherwise the whole run,
\* break paragraph included, is one run.
C6_SectionBreakSplitsIffPageForcing ==
    (Scanned /\ min_empty >= 1) =>
        \A i, s, e \in 0..(Len(paragraphs) - 1) :
            (CarriesSectionBreak(paragraphs[i + 1]) /\ OtherwiseEmptyRun(paragraphs, s, i, e))
            => IF BreakType(paragraphs[i + 1]) \in {"nextPage", "oddPage", "evenPage"}
               THEN RegionsTouching(s, e) =
                        {RegionOf(s, i - 1) : x \in {y \in {0} : i - s >= min_empty}}
                        \cup {RegionOf(i + 1, e) : x \in {y \in {0} : e - i >= min_empty}}
               ELSE RegionsTouching(s, e) =
                        {RegionOf(s, e) : x \in {y \in {0} : e - s + 1 >= min_empty}}

\* C6 witness: a continuous section break between two empty paragraphs was
\* scanned with threshold 2 and the three paragraphs came back as one region
C6_Witness ==
    /\ pc = "scanned"
    /\ min_empty = 2
    /\ Len(paragraphs) = 3
    /\ PlainEmpty(paragraphs[1]) /\ PlainEmpty(paragraphs[3])
    /\ CarriesSectionBreak(paragraphs[2])
    /\ BreakType(paragraphs[2]) = "continuous"
    /\ empty_regions = <<RegionOf(0, 2)>>

---------------------------------------------------------------------------
(* Operator input *)

\* str.lower() on the letters the prompts compare against
Lower(c) ==
    CASE c = "A" -> "a" [] c = "S" -> "s" [] c = "N" -> "n"
      [] c = "Y" -> "y" [] c = "E" -> "e" [] OTHER -> c

\* input(...).strip().lower()
StripLower(s) == LET t == Strip(s) IN [k \in DOMAIN t |-> Lower(t[k])]

DigitValue(c) ==
    CASE c = "0" -> 0 [] c = "1" -> 1 [] c = "2" -> 2 [] c = "3" -> 3 [] c = "4" -> 4
      [] c = "5" -> 5 [] c = "6" -> 6 [] c = "7" -> 7 [] c = "8" -> 8 [] c = "9" -> 9
      [] OTHER -> -1

RECURSIVE DigitsValue(_, _)
DigitsValue(s, acc) ==
    IF s = <<>> THEN acc ELSE DigitsValue(Tail(s), 10 * acc + DigitValue(Head(s)))

\* int(s): the value, or ValueError
int(s) ==
    LET digits == IF s # <<>> /\ Head(s) \in {"-", "+"} THEN Tail(s) ELSE s
    IN IF digits = <<>> \/ \E k \in DOMAIN digits : DigitValue(digits[k]) < 0
       THEN [ValueError |-> TRUE, value |-> 0]
       ELSE [ValueError |-> FALSE,
             value |-> IF Head(s) = "-" THEN 0 - DigitsValue(digits, 0)
                       ELSE DigitsValue(digits, 0)]

DefaultMinEmpty == 15

\* main(): "int(min_input) if min_input else 15", 15 on ValueError
ParseMinEmpty(raw) ==
    LET min_input == Strip(raw)
    IN IF min_input = <<>> THEN DefaultMinEmpty
       ELSE IF int(min_input).ValueError THEN DefaultMinEmpty
       ELSE int(min_input).value

PathInputs == {"", "report.docx", "missing.docx", "notes.txt"}

MinInputs == {<<>>, <<"x">>, <<"0">>, <<"-", "1">>, <<" ", "1">>, <<"2">>}

ChoiceInputs == {<<"a">>, <<" ", "A">>, <<"s">>, <<"S", " ">>, <<"n">>, <<"y">>, <<>>}

ConfirmInputs == {<<"y", "e", "s">>, <<" ", "Y", "E", "S">>, <<"y">>, <<"n", "o">>, <<>>}

ResponseInputs == {<<"y">>, <<"Y", " ">>, <<"n">>, <<"y", "e", "s">>, <<>>}

---------------------------------------------------------------------------
(* Files *)

Archive(kind, xml) == [kind |-> kind, xml |-> xml]

\* an archive whose write stopped part-way and that cannot be opened
Partial == Archive("partial", NoXml)

InitialFiles ==
    {Archive("zip", Xml("body", e)) : e \in SeqsUpTo(CoreKinds, MaxDocLen)}
    \cup {Archive("zip", Xml("nobody", <<>>)), Archive("zip", Xml("malformed", <<>>)),
          Archive("zip", NoXml), Partial}

\* Path.exists() for the paths the operator can name
Exists(path) == path \in {"report.docx", "notes.txt"}

\* docx_path.suffix.lower() == '.docx'
HasDocxSuffix(path) == path \in {"report.docx", "missing.docx"}

---------------------------------------------------------------------------
(* The interactive session: main() and process_docx() on report.docx *)

Init ==
    /\ docx \in InitialFiles
    /\ backup = NoFile
    /\ document_xml = NoXml
    /\ min_empty = DefaultMinEmpty
    /\ body = <<>> /\ paragraphs = <<>>
    /\ empty_regions = <<>> /\ regions_to_delete = <<>> /\ prev_regions = <<>>
    /\ swallowed = 0 /\ raised = ""
    /\ pc = "idle" /\ outcome = ""
    /\ docx_path = "" /\ choice = Unset /\ confirm = Unset /\ responses = <<>>
    /\ sel = 0 /\ runs = 0
    /\ docx_at_start = docx /\ backup_at_start = NoFile
    /\ copied = FALSE /\ written = FALSE

\* process_docx returns or an exception leaves it; the TemporaryDirectory
\* context removes extract_dir on the way out
Finish(how, exc) ==
    /\ pc' = "done"
    /\ outcome' = how
    /\ raised' = exc
    /\ document_xml' = NoXml

FilesUnchanged == UNCHANGED <<docx, backup, copied, written>>

RunUnchanged == UNCHANGED <<docx_path, min_empty, runs, docx_at_start, backup_at_start>>

TreeUnchanged == UNCHANGED <<body, paragraphs, empty_regions, prev_regions, swallowed>>

AnswersUnchanged == UNCHANGED <<choice, confirm, responses, sel, regions_to_delete>>

\* main(): reads the path and the threshold and calls process_docx
Main ==
    /\ pc \in {"idle", "done"}
    /\ runs < MaxRuns
    /\ runs' = runs + 1
    /\ \E docx_input \in PathInputs, min_input \in MinInputs :
          /\ docx_path' = docx_input
          /\ IF docx_input = ""
             THEN /\ min_empty' = DefaultMinEmpty
                  /\ pc' = "done" /\ outcome' = "no file specified"
             ELSE /\ min_empty' = ParseMinEmpty(min_input)
                  /\ pc' = "check" /\ outcome' = ""
    /\ raised' = ""
    /\ document_xml' = NoXml
    /\ body' = <<>> /\ paragraphs' = <<>>
    /\ empty_regions' = <<>> /\ regions_to_delete' = <<>>
    /\ swallowed' = 0
    /\ choice' = Unset /\ confirm' = Unset /\ responses' = <<>> /\ sel' = 0
    /\ docx_at_start' = docx /\ backup_at_start' = backup
    /\ copied' = FALSE /\ written' = FALSE
    /\ UNCHANGED <<docx, backup, prev_regions>>

\* process_docx: the existence and suffix checks
CheckPath ==
    /\ pc = "check"
    /\ IF ~Exists(docx_path) THEN Finish("file not found", "")
       ELSE IF ~HasDocxSuffix(docx_path) THEN Finish("not a docx file", "")
       ELSE /\ pc' = "extract"
            /\ UNCHANGED <<outcome, raised, document_xml>>
    /\ FilesUnchanged /\ RunUnchanged /\ TreeUnchanged /\ AnswersUnchanged

\* extract_docx into the temporary directory and the document.xml check
Extract ==
    /\ pc = "extract"
    /\ IF docx.kind = "partial" THEN Finish("raised", "BadZipFile")
       ELSE IF docx.xml.kind = "none" THEN Finish("document.xml not found", "")
       ELSE /\ document_xml' = docx.xml
            /\ pc' = "scan"
            /\ UNCHANGED <<outcome, raised>>
    /\ FilesUnchanged /\ RunUnchanged /\ TreeUnchanged /\ AnswersUnchanged

\* the archive cannot be read or the temporary directory cannot be written
ExtractFails ==
    /\ pc = "extract"
    /\ Finish("raised", "OSError")
    /\ FilesUnchanged /\ RunUnchanged /\ TreeUnchanged /\ AnswersUnchanged

\* "empty_regions, tree, root, body, paragraphs = find_empty_page_regions(...)"
\* and the "if not empty_regions" return
ScanDocument ==
    /\ pc = "scan"
    /\ LET result == find_empty_page_regions(document_xml, min_empty)
       IN IF result.raised # ""
          THEN /\ Finish("raised", result.raised)
               /\ UNCHANGED <<body, paragraphs, empty_regions>>
          ELSE IF result.len # 5
          THEN /\ Finish("raised", "ValueError")
               /\ UNCHANGED <<body, paragraphs, empty_regions>>
          ELSE /\ empty_regions' = result.empty_regions
               /\ body' = result.body
               /\ paragraphs' = result.paragraphs
               /\ IF result.empty_regions = <<>>
                  THEN Finish("no regions found", "")
                  ELSE /\ pc' = "choose"
                       /\ UNCHANGED <<outcome, raised, document_xml>>
    /\ UNCHANGED <<prev_regions, swallowed>>
    /\ FilesUnchanged /\ RunUnchanged /\ AnswersUnchanged

\* "Your choice (a/s/n)": 'a' asks for the confirmation, 's' starts the
\* per-region prompts, anything else cancels
Choose ==
    /\ pc = "choose"
    /\ \E raw \in ChoiceInputs :
          /\ choice' = StripLower(raw)
          /\ IF StripLower(raw) = <<"a">>
             THEN /\ pc' = "confirm" /\ UNCHANGED <<outcome, raised, document_xml>>
             ELSE IF StripLower(raw) = <<"s">>
             THEN /\ pc' = "select" /\ UNCHANGED <<outcome, raised, document_xml>>
             ELSE Finish("cancelled", "")
    /\ UNCHANGED <<confirm, responses, sel, regions_to_delete>>
    /\ FilesUnchanged /\ RunUnchanged /\ TreeUnchanged

\* variant: any answer starting with "y" confirms
ConfirmedRegions_prefix(answer, regions) ==
    IF answer # <<>> /\ Head(answer) = "y" THEN regions ELSE <<>>

\* "if confirm == 'yes': regions_to_delete = empty_regions"
ConfirmedRegions(answer, regions) ==
    IF answer = <<"y", "e", "s">> THEN regions ELSE <<>>

\* "Type 'yes' to confirm" and the "if not regions_to_delete" return
Confirm ==
    /\ pc = "confirm"
    /\ \E raw \in ConfirmInputs :
          /\ confirm' = StripLower(raw)
          /\ regions_to_delete' = ConfirmedRegions(StripLower(raw), empty_regions)
          /\ IF ConfirmedRegions(StripLower(raw), empty_regions) = <<>>
             THEN Finish("no regions selected", "")
             ELSE /\ pc' = "delete" /\ UNCHANGED <<outcome, raised, document_xml>>
    /\ UNCHANGED <<choice, responses, sel>>
    /\ FilesUnchanged /\ RunUnchanged /\ TreeUnchanged

\* one "Delete region i? (y/n)" prompt; after the last one the
\* "if not regions_to_delete" return
Select ==
    /\ pc = "select"
    /\ sel < Len(empty_regions)
    /\ \E raw \in ResponseInputs :
          LET response == StripLower(raw)
              selected == IF response = <<"y">>
                          THEN Append(regions_to_delete, empty_regions[sel + 1])
                          ELSE regions_to_delete
          IN /\ responses' = Append(responses, response)
             /\ regions_to_delete' = selected
             /\ sel' = sel + 1
             /\ IF sel + 1 < Len(empty_regions)
                THEN UNCHANGED <<pc, outcome, raised, document_xml>>
                ELSE IF selected = <<>>
                THEN Finish("no regions selected", "")
                ELSE /\ pc' = "delete" /\ UNCHANGED <<outcome, raised, document_xml>>
    /\ UNCHANGED <<choice, confirm>>
    /\ FilesUnchanged /\ RunUnchanged /\ TreeUnchanged

\* input() finds the input stream closed
InputEOF ==
    /\ pc \in {"choose", "confirm", "select"}
    /\ Finish("raised", "EOFError")
    /\ FilesUnchanged /\ RunUnchanged /\ TreeUnchanged /\ AnswersUnchanged

\* delete_empty_regions(regions_to_delete, body, paragraphs, tree, document_xml)
DeleteRegions ==
    /\ pc = "delete"
    /\ LET d == delete_empty_regions(regions_to_delete, body, paragraphs)
       IN /\ body' = d.children
          /\ swallowed' = d.swallowed
          /\ document_xml' = Xml(document_xml.kind, Serialize(d.children))
    /\ prev_regions' = empty_regions
    /\ pc' = "backup"
    /\ UNCHANGED <<outcome, raised, paragraphs, empty_regions>>
    /\ FilesUnchanged /\ RunUnchanged /\ AnswersUnchanged

\* delete_empty_regions: tree.write fails after the elements were removed
WriteFails ==
    /\ pc = "delete"
    /\ LET d == delete_empty_regions(regions_to_delete, body, paragraphs)
       IN /\ body' = d.children
          /\ swallowed' = d.swallowed
    /\ prev_regions' = empty_regions
    /\ Finish("raised", "OSError")
    /\ UNCHANGED <<paragraphs, empty_regions>>
    /\ FilesUnchanged /\ RunUnchanged /\ AnswersUnchanged

\* variant: the backup is taken from the rewritten content
CopyBackupOfRewritten ==
    /\ pc = "backup"
    /\ backup' = Archive(docx.kind, document_xml)
    /\ copied' = TRUE
    /\ pc' = "repack"
    /\ UNCHANGED <<docx, written, outcome, raised, document_xml>>
    /\ RunUnchanged /\ TreeUnchanged /\ AnswersUnchanged

\* shutil.copy(docx_path, backup_path)
CopyBackup ==
    /\ pc = "backup"
    /\ backup' = docx
    /\ copied' = TRUE
    /\ pc' = "repack"
    /\ UNCHANGED <<docx, written, outcome, raised, document_xml>>
    /\ RunUnchanged /\ TreeUnchanged /\ AnswersUnchanged

\* shutil.copy fails: before the backup path is opened, or part-way
CopyBackupFails ==
    /\ pc = "backup"
    /\ \E b \in {backup, Partial} : backup' = b
    /\ Finish("raised", "OSError")
    /\ UNCHANGED <<docx, copied, written>>
    /\ RunUnchanged /\ TreeUnchanged /\ AnswersUnchanged

\* repack_docx(extract_dir, docx_path): the archive is written at docx_path
Repack ==
    /\ pc = "repack"
    /\ docx' = Archive(docx.kind, document_xml)
    /\ written' = TRUE
    /\ Finish("success", "")
    /\ UNCHANGED <<backup, copied>>
    /\ RunUnchanged /\ TreeUnchanged /\ AnswersUnchanged

\* repack_docx fails: before docx_path is opened for writing, or part-way,
\* leaving an unreadable file or an archive that lacks members
RepackFails ==
    /\ pc = "repack"
    /\ \E d \in {docx, Partial, Archive("incomplete", NoXml),
                 Archive("incomplete", document_xml)} :
          /\ docx' = d
          /\ written' = (d # docx)
    /\ Finish("raised", "OSError")
    /\ UNCHANGED <<backup, copied>>
    /\ RunUnchanged /\ TreeUnchanged /\ AnswersUnchanged

Next ==
    \/ Main \/ CheckPath \/ Extract \/ ExtractFails \/ ScanDocument
    \/ Choose \/ Confirm \/ Select \/ InputEOF
    \/ DeleteRegions \/ WriteFails
    \/ CopyBackup \/ CopyBackupFails
    \/ Repack \/ RepackFails

Spec == Init /\ [][Next]_vars

---------------------------------------------------------------------------
(* Properties of the session *)

InRun == pc \notin {"idle"}

\* C2: the first write to the original path comes only after the backup copy
\* completed and the repacked archive was produced; so whenever a run ends in
\* a failure, or is still short of its successful end, the original file has
\* the content it had at the start of the run.
C2_OriginalUntouchedUnlessSuccess ==
    InRun =>
        /\ written => copied
        /\ outcome # "success" => docx = docx_at_start

\* the operator chose accept-all and then typed the token 'yes', or chose the
\* per-region mode and accepted at least one region
Authorised ==
    \/ choice = <<"a">> /\ confirm = <<"y", "e", "s">>
    \/ choice = <<"s">> /\ \E k \in DOMAIN responses : responses[k] = <<"y">>

\* C3: elements are deleted, the backup written and the original overwritten
\* only after accept-all plus the token 'yes', or per-region mode with at
\* least one accepted region; in every other run the content tree, the
\* original file and the backup path stay as they were.
C3_DeletionNeedsConfirmation ==
    InRun =>
        /\ (pc \in {"delete", "backup", "repack"} \/ copied \/ written) => Authorised
        /\ ~Authorised =>
              /\ body = paragraphs
              /\ docx = docx_at_start
              /\ backup = backup_at_start

\* C3 witness: accept-all was chosen, the confirmation was answered with
\* something other than 'yes', and the run ended with nothing selected
C3_Witness ==
    /\ pc = "done"
    /\ choice = <<"a">>
    /\ confirm = <<"y">>
    /\ outcome = "no regions selected"
    /\ empty_regions # <<>>
    /\ body = paragraphs
    /\ backup_at_start.kind = "zip"

\* C9: a run whose scan returns no region ends at once in the outcome
\* "no regions found", with no exception, no prompt, no backup and no write
\* to the original: for an empty body, a body without a qualifying run, and a
\* document without a body element.
C9_NoRegionsIsNormalOutcome ==
    [][(/\ pc = "scan"
        /\ pc' # pc
        /\ find_empty_page_regions(document_xml, min_empty).raised = ""
        /\ find_empty_page_regions(document_xml, min_empty).empty_regions = <<>>)
       => (/\ pc' = "done"
           /\ outcome' = "no regions found"
           /\ raised' = ""
           /\ choice' = Unset
           /\ docx' = docx
           /\ backup' = backup)]_vars

\* delete_empty_regions removed elements from the tree in this run
DeletionApplied == body # paragraphs

\* C10 as stated: after each run that applies a deletion the backup holds the
\* content the original had at the start of that run; after a run that
\* applies none the backup is as it was.
C10_BackupAfterEveryDeletingRun ==
    pc = "done" =>
        IF outcome = "success" THEN backup = docx_at_start ELSE backup = backup_at_start

\* C10: once the backup copy of a run has completed - and so whenever the run
\* has written to the original - the backup holds the content the original
\* had at the start of that run, replacing any earlier backup; a run that
\* deletes nothing from the content tree leaves the backup as it was.
C10_BackupHoldsOriginalOfApplyingRun ==
    InRun =>
        /\ copied => backup = docx_at_start
        /\ written => copied
        /\ ~DeletionApplied => backup = backup_at_start

\* C10 witness: a second applying run replaced the backup of the first with
\* the content the original had when the second run started
C10_Witness ==
    /\ pc = "done"
    /\ outcome = "success"
    /\ runs = 2
    /\ backup_at_start.kind = "zip"
    /\ backup # backup_at_start
    /\ backup = docx_at_start
    /\ docx # docx_at_start

=============================================================================
